---- MODULE Spec2Model ----
(***************************************************************************)
(* LexLuthor: the character scanner of src/src/lex_luthor.rs.              *)
(*                                                                         *)
(* A character is modelled as a string naming one Unicode scalar value     *)
(* ("+", "x", "\n", ...); a source text and an identifier text are         *)
(* sequences of characters.  The lexer's fields are the variables          *)
(* source_code, line, column, position and character; tokens and errors    *)
(* are the two vectors of lex(); result is the value lex() returns.        *)
(***************************************************************************)
EXTENDS Integers, Sequences, FiniteSets, TLC

\* Longest source text of the general specification.
MaxLen == 3

\* Longest run of whitespace before / after a reserved word (SpecKeywords).
MaxPad == 2

\* Longest source text made of operator characters only (SpecOperators).
MaxOps == 2

\* Number of lex() calls made on one instance (SpecReuse).
MaxCalls == 2

(***************************************************************************)
(* Characters                                                              *)
(***************************************************************************)
\* '\0', the value of `character` once the input is exhausted.
NUL == "NUL"

\* U+00E9, an alphabetic character whose UTF-8 encoding takes two bytes.
EAcute == "U+00E9"

\* U+20AC, a non-alphabetic character whose UTF-8 encoding takes three bytes.
Euro == "U+20AC"

AsciiLetters ==
  {"a", "b", "c", "d", "e", "f", "g", "h", "i", "j", "k", "l", "m",
   "n", "o", "p", "q", "r", "s", "t", "u", "v", "w", "x", "y", "z"}

\* char::is_alphabetic
IsAlphabetic(c) == c \in AsciiLetters \cup {EAcute}

\* char::is_digit(10)
IsDigit(c) == c \in {"0", "1", "2", "3", "4", "5", "6", "7", "8", "9"}

\* A whitespace test that knows space, tab, newline and carriage return only.
IsSpaceTabNewlineReturn(c) == c \in {" ", "\t", "\n", "\r"}

\* char::is_ascii_whitespace: U+0020, U+0009, U+000A, U+000C, U+000D
IsAsciiWhitespace(c) == c \in {" ", "\t", "\n", "\f", "\r"}

\* Number of bytes of the UTF-8 encoding of one character.
Utf8Len(c) == IF c = EAcute THEN 2 ELSE IF c = Euro THEN 3 ELSE 1

\* String::len(): the length of a text in bytes.
RECURSIVE StrLen(_)
StrLen(s) == IF s = <<>> THEN 0 ELSE Utf8Len(Head(s)) + StrLen(Tail(s))

\* str::chars().nth(n): the n-th character (0-based), or NUL-free "None".
None == "None"
CharsNth(s, n) == IF n + 1 <= Len(s) THEN s[n + 1] ELSE None

\* str::chars().skip(start).take(count).collect()
SkipTake(s, start, count) ==
  LET last == IF start + count <= Len(s) THEN start + count ELSE Len(s)
  IN  SubSeq(s, start + 1, last)

(***************************************************************************)
(* Tokens and errors                                                       *)
(***************************************************************************)
SourceSpan(l, c) == [line |-> l, column |-> c]

Token(type, span) == [type |-> type, source_span |-> span]

Identifier(text, span) == [type |-> "Identifier", text |-> text, source_span |-> span]

Eof == [type |-> "Eof"]

\* format!("unexpected character {}", character)
UnexpectedMessage(c) == <<"unexpected character ">> \o <<c>>

\* format!("{} is not a valid identifier, {} must be followed by a letter", ..)
InvalidMessage(text, c) ==
  text \o <<" is not a valid identifier, ">> \o <<c>> \o <<" must be followed by a letter">>

UnexpectedCharacter(span, c) ==
  [kind |-> "UnexpectedCharacter", source_span |-> span, message |-> UnexpectedMessage(c)]

InvalidIdentifier(span, text, c) ==
  [kind |-> "InvalidIdentifier", source_span |-> span, message |-> InvalidMessage(text, c)]

Ok(v) == [ok |-> TRUE, value |-> v]

Err(e) == [ok |-> FALSE, value |-> e]

\* The reserved words and their tokens.
Keywords ==
  { <<"Program",  <<"p","r","o","g","r","a","m">> >>,
    <<"Define",   <<"d","e","f","i","n","e">> >>,
    <<"Not",      <<"n","o","t">> >>,
    <<"Variable", <<"v","a","r","i","a","b","l","e">> >>,
    <<"Is",       <<"i","s">> >>,
    <<"Natural",  <<"n","a","t","u","r","a","l">> >>,
    <<"Real",     <<"r","e","a","l">> >>,
    <<"Char",     <<"c","h","a","r">> >>,
    <<"Boolean",  <<"b","o","o","l","e","a","n">> >>,
    <<"Execute",  <<"e","x","e","c","u","t","e">> >>,
    <<"Set",      <<"s","e","t">> >>,
    <<"Get",      <<"g","e","t">> >>,
    <<"To",       <<"t","o">> >>,
    <<"Put",      <<"p","u","t">> >>,
    <<"Loop",     <<"l","o","o","p">> >>,
    <<"While",    <<"w","h","i","l","e">> >>,
    <<"Do",       <<"d","o">> >>,
    <<"True",     <<"t","r","u","e">> >>,
    <<"False",    <<"f","a","l","s","e">> >> }

KeywordTexts == { k[2] : k \in Keywords }

KeywordType(text) == (CHOOSE k \in Keywords : k[2] = text)[1]

\* token_from_identifier_or_keyword(identifier_or_keyword, source_span)
token_from_identifier_or_keyword(text, span) ==
  IF text \in KeywordTexts THEN Token(KeywordType(text), span)
  ELSE Identifier(text, span)

(***************************************************************************)
(* The cursor.  A lexer value is the record of the struct's fields.        *)
(***************************************************************************)
LexLuthor(s, l, c, p, ch) ==
  [source_code |-> s, line |-> l, column |-> c, position |-> p, character |-> ch]

current_source_span(self) == SourceSpan(self.line, self.column)

\* has_characters_to_lex written with < in place of <=.
has_characters_to_lex_strict(self) == self.position < StrLen(self.source_code)

has_characters_to_lex(self) == self.position <= StrLen(self.source_code)

\* peek that looks at the current character instead of the next one.
peek_current(self) == CharsNth(self.source_code, self.position - 1)

peek(self) == CharsNth(self.source_code, self.position)

next_character_is(self, expected_character) ==
  peek(self) # None /\ peek(self) = expected_character

\* read_character that adds to position only when it read a character.
read_character_stuck(self) ==
  LET c == CharsNth(self.source_code, self.position)
  IN  IF c = None
        THEN [self EXCEPT !.character = NUL]
        ELSE [self EXCEPT !.character = c,
                          !.line      = IF c = "\n" THEN self.line + 1 ELSE self.line,
                          !.column    = IF c = "\n" THEN 0 ELSE self.column + 1,
                          !.position  = self.position + 1]

\* read_character that resets the column on a newline but keeps the line.
read_character_same_line(self) ==
  LET c == CharsNth(self.source_code, self.position)
  IN  IF c = None
        THEN [self EXCEPT !.character = NUL, !.position = self.position + 1]
        ELSE [self EXCEPT !.character = c,
                          !.column    = IF c = "\n" THEN 0 ELSE self.column + 1,
                          !.position  = self.position + 1]

read_character(self) ==
  LET c == CharsNth(self.source_code, self.position)
  IN  IF c = None
        THEN [self EXCEPT !.character = NUL, !.position = self.position + 1]
        ELSE [self EXCEPT !.character = c,
                          !.line      = IF c = "\n" THEN self.line + 1 ELSE self.line,
                          !.column    = IF c = "\n" THEN 0 ELSE self.column + 1,
                          !.position  = self.position + 1]

\* LexLuthor::new
new(source) == read_character(LexLuthor(source, 1, 0, 0, NUL))

RECURSIVE skip_whitespace(_)
skip_whitespace(self) ==
  IF IsAsciiWhitespace(self.character) THEN skip_whitespace(read_character(self))
  ELSE self

\* The while loop of read_identifier_or_keyword.
RECURSIVE read_run(_)
read_run(self) ==
  IF IsDigit(self.character) \/ IsAlphabetic(self.character) \/ self.character = "_"
    THEN read_run(read_character(self))
    ELSE self

\* The text collected by read_identifier_or_keyword, from the cursor before
\* (self) and after (after) the loop.
collected_text(self, after) ==
  LET start == self.position - 1
  IN  SkipTake(self.source_code, start, after.position - start)

\* Indexes (1-based) of the characters the validation loop rejects.
Offending(text) ==
  { i \in 1..Len(text) :
      /\ IsDigit(text[i]) \/ text[i] = "_"
      /\ ~ (i + 1 <= Len(text) /\ IsAlphabetic(text[i + 1])) }

FirstOffending(text) == CHOOSE i \in Offending(text) : \A j \in Offending(text) : i <= j

\* The validation of read_identifier_or_keyword: Ok(text) or Err(error).
validate(text, span) ==
  IF StrLen(text) = 1 THEN Ok(text)
  ELSE IF Offending(text) # {}
         THEN Err(InvalidIdentifier(span, text, text[FirstOffending(text)]))
         ELSE Ok(text)

\* read_identifier_or_keyword: the cursor after the call and the Result.
read_identifier_or_keyword(self) ==
  LET after == read_run(self)
  IN  [self |-> after,
       result |-> validate(collected_text(self, after), current_source_span(after))]

SingleCharacterTokens ==
  { <<"{", "LeftBrace">>, <<"}", "RightBrace">>, <<"[", "LeftBracket">>,
    <<"]", "RightBracket">>, <<",", "Comma">>, <<"+", "Plus">>, <<"-", "Minus">>,
    <<"/", "Slash">>, <<"=", "Equal">>, <<"&", "Ampersand">>, <<"|", "Pipe">>,
    <<"!", "Bang">>, <<"(", "LeftParen">>, <<")", "RightParen">> }

SingleCharacters == { t[1] : t \in SingleCharacterTokens }

SingleType(c) == (CHOOSE t \in SingleCharacterTokens : t[1] = c)[2]

\* '*', '%', '<' and '>' with their follower, long and short token.
TwoCharacterTokens ==
  { <<"*", "*", "StarStar", "Star">>,
    <<"%", "%", "PercentPercent", "Percent">>,
    <<"<", "=", "LessThanOrEqual", "LessThan">>,
    <<">", "=", "GreaterThanOrEqual", "GreaterThan">> }

TwoCharacters == { t[1] : t \in TwoCharacterTokens }

TwoRule(c) == CHOOSE t \in TwoCharacterTokens : t[1] = c

\* The match of next_token on the current character: the cursor after the
\* arm and Ok(token) or Err(error); the trailing read_character is not
\* included.
match_character(self) ==
  LET c == self.character
  IN  IF c \in TwoCharacters
        THEN IF next_character_is(self, TwoRule(c)[2])
               THEN LET after == read_character(self)
                    IN  [self |-> after,
                         result |-> Ok(Token(TwoRule(c)[3], current_source_span(after)))]
               ELSE [self |-> self,
                     result |-> Ok(Token(TwoRule(c)[4], current_source_span(self)))]
      ELSE IF c = "!" /\ next_character_is(self, "=")
        THEN [self |-> self, result |-> Ok(Token("NotEqual", current_source_span(self)))]
      ELSE IF c \in SingleCharacters
        THEN [self |-> self, result |-> Ok(Token(SingleType(c), current_source_span(self)))]
      ELSE IF IsAlphabetic(c) \/ c = "_"
        THEN LET r == read_identifier_or_keyword(self)
             IN  IF r.result.ok
                   THEN [self |-> r.self,
                         result |-> Ok(token_from_identifier_or_keyword(
                                         r.result.value, current_source_span(r.self)))]
                   ELSE r
      ELSE LET after == read_character(self)
           IN  [self |-> after,
                result |-> Err(UnexpectedCharacter(current_source_span(after), c))]

\* next_token: the cursor after the call and the Result.
next_token(self) ==
  LET m == match_character(skip_whitespace(self))
  IN  IF m.result.ok THEN [self |-> read_character(m.self), result |-> m.result]
      ELSE m

\* lex() that surfaces the collected tokens whenever there are some.
lex_result_partial(toks, errs) ==
  IF errs # <<>> /\ toks = <<>> THEN Err(errs) ELSE Ok(Append(toks, Eof))

\* The tail of lex(): what it returns from the two vectors.
lex_result(toks, errs) ==
  IF errs # <<>> THEN Err(errs) ELSE Ok(Append(toks, Eof))

(***************************************************************************)
(* State                                                                   *)
(***************************************************************************)
VARIABLES source_code, line, column, position, character,
          tokens, errors, pc, result, trace, calls

vars == <<source_code, line, column, position, character,
          tokens, errors, pc, result, trace, calls>>

\* The lexer value held in the variables.
Self == LexLuthor(source_code, line, column, position, character)

\* Characters of the source texts of the general specification.
Alphabet ==
  {"d", "o", "2", "_", "+", "*", "%", "=", "!", "<", ">", "?", " ", "\n", EAcute, Euro}

RECURSIVE SeqsUpTo(_, _)
SeqsUpTo(S, n) ==
  IF n = 0 THEN { <<>> }
  ELSE LET shorter == SeqsUpTo(S, n - 1)
       IN  shorter \cup { Append(s, c) : s \in shorter, c \in S }

Sources == SeqsUpTo(Alphabet, MaxLen)

Whitespace == {" ", "\t", "\n", "\r"}

Pads == SeqsUpTo(Whitespace, MaxPad)

\* Source texts made of the characters of the token rules only.
OperatorSources == SeqsUpTo(SingleCharacters \cup TwoCharacters, MaxOps)

\* Source texts around the characters that skip_whitespace looks at.
WhitespaceAlphabet == {" ", "\t", "\n", "\r", "\f", "+", "?", "d"}

WhitespaceSources == SeqsUpTo(WhitespaceAlphabet, MaxLen)

\* A reserved word between two runs of whitespace.
KeywordSources == { l \o w \o t : l \in Pads, w \in KeywordTexts, t \in Pads }

\* `let mut lexer = LexLuthor::new(source)` followed by the call of lex(),
\* which starts with two empty vectors.
InitWith(source) ==
  LET self == new(source)
  IN  /\ source_code = self.source_code
      /\ line = self.line
      /\ column = self.column
      /\ position = self.position
      /\ character = self.character
      /\ tokens = <<>>
      /\ errors = <<>>
      /\ pc = "lex"
      /\ result = None
      /\ trace = <<>>
      /\ calls = 1

Init == \E source \in Sources : InitWith(source)

InitKeywords == \E source \in KeywordSources : InitWith(source)

InitOperators == \E source \in OperatorSources : InitWith(source)

InitWhitespace == \E source \in WhitespaceSources : InitWith(source)

\* One iteration of the loop of lex(): a next_token attempt whose token or
\* error is pushed.  trace records, per attempt, the 0-based index of the
\* character the attempt dispatches on, the index of the current character
\* when it returns, and its Result.
LexLoop ==
  /\ pc = "lex"
  /\ has_characters_to_lex(Self)
  /\ LET r == next_token(Self)
     IN  /\ line' = r.self.line
         /\ column' = r.self.column
         /\ position' = r.self.position
         /\ character' = r.self.character
         /\ tokens' = IF r.result.ok THEN Append(tokens, r.result.value) ELSE tokens
         /\ errors' = IF r.result.ok THEN errors ELSE Append(errors, r.result.value)
         /\ trace' = Append(trace, [start  |-> skip_whitespace(Self).position - 1,
                                    stop   |-> r.self.position - 1,
                                    result |-> r.result])
  /\ UNCHANGED <<source_code, pc, result, calls>>

\* The loop of lex() ends and lex() returns.
LexReturn ==
  /\ pc = "lex"
  /\ ~ has_characters_to_lex(Self)
  /\ result' = lex_result(tokens, errors)
  /\ pc' = "done"
  /\ UNCHANGED <<source_code, line, column, position, character, tokens, errors,
                 trace, calls>>

\* A second call that goes on with the errors of the previous one.
LexCallKeepingErrors ==
  /\ pc = "done"
  /\ calls < MaxCalls
  /\ calls' = calls + 1
  /\ tokens' = <<>>
  /\ pc' = "lex"
  /\ UNCHANGED <<source_code, line, column, position, character, errors, result, trace>>

\* lex() is called again on the same instance: it starts with two new empty
\* vectors and the cursor the previous call left.
LexCall ==
  /\ pc = "done"
  /\ calls < MaxCalls
  /\ calls' = calls + 1
  /\ tokens' = <<>>
  /\ errors' = <<>>
  /\ pc' = "lex"
  /\ UNCHANGED <<source_code, line, column, position, character, result, trace>>

Next == LexLoop \/ LexReturn

NextReuse == LexLoop \/ LexReturn \/ LexCall

Spec == Init /\ [][Next]_vars

SpecKeywords == InitKeywords /\ [][Next]_vars

SpecOperators == InitOperators /\ [][Next]_vars

SpecWhitespace == InitWhitespace /\ [][Next]_vars

SpecReuse == Init /\ [][NextReuse]_vars

(***************************************************************************)
(* Reference notions of the source text, independent of the cursor         *)
(***************************************************************************)
IsRunCharacter(c) == IsDigit(c) \/ IsAlphabetic(c) \/ c = "_"

IsRunStart(c) == IsAlphabetic(c) \/ c = "_"

OperatorCharacters == SingleCharacters \cup TwoCharacters

\* 0-based index one past the maximal run of run characters that starts at
\* the 0-based index i of s.
RECURSIVE RunEnd(_, _)
RunEnd(s, i) ==
  IF i + 1 <= Len(s) /\ IsRunCharacter(s[i + 1]) THEN RunEnd(s, i + 1) ELSE i

\* The maximal run that starts at the 0-based index i of s.
MaximalRun(s, i) == SubSeq(s, i + 1, RunEnd(s, i))

\* The identifier-shape rule on a run r.
ViolatesShape(r, i) ==
  /\ IsDigit(r[i]) \/ r[i] = "_"
  /\ ~ (i < Len(r) /\ IsAlphabetic(r[i + 1]))

ShapeOk(r) == Len(r) = 1 \/ \A i \in 1..Len(r) : ~ ViolatesShape(r, i)

FirstViolation(r) ==
  CHOOSE i \in 1..Len(r) : ViolatesShape(r, i) /\ \A j \in 1..(i - 1) : ~ ViolatesShape(r, j)

\* The lexical defects of s from the 0-based index i on, in source order:
\* one per unrecognized character and one per invalid maximal run.
RECURSIVE Defects(_, _)
Defects(s, i) ==
  IF i >= Len(s) THEN <<>>
  ELSE LET c == s[i + 1]
       IN  IF IsAsciiWhitespace(c) \/ c \in OperatorCharacters THEN Defects(s, i + 1)
           ELSE IF IsRunStart(c)
             THEN (IF ShapeOk(MaximalRun(s, i)) THEN <<>> ELSE <<"InvalidIdentifier">>)
                    \o Defects(s, RunEnd(s, i))
           ELSE <<"UnexpectedCharacter">> \o Defects(s, i + 1)

Range(s) == { s[i] : i \in 1..Len(s) }

Kinds(errs) == [i \in 1..Len(errs) |-> errs[i].kind]

\* The character an attempt dispatches on, or None at the end of the input.
DispatchCharacter(a) == CharsNth(source_code, a.start)

OnRun(a) == DispatchCharacter(a) # None /\ IsRunStart(DispatchCharacter(a))

Failed(a) == ~ a.result.ok

FailedAttempts == SelectSeq(trace, Failed)

(***************************************************************************)
(* C1                                                                      *)
(***************************************************************************)
\* C1: lex returns Ok exactly when no next_token attempt failed, and then the
\* list is the collected tokens followed by Eof, with Eof at no other index;
\* it returns Err exactly when at least one attempt failed, and then the list
\* is non-empty, holds the errors of the failed attempts in the order they
\* failed, and holds no token.
C1_OkOrErrNeverMixed ==
  pc = "done" =>
    /\ result.ok <=> FailedAttempts = <<>>
    /\ result.ok =>
         /\ Len(result.value) = Len(tokens) + 1
         /\ result.value[Len(result.value)] = Eof
         /\ \A i \in 1..Len(tokens) :
              result.value[i] = tokens[i] /\ result.value[i].type # "Eof"
    /\ ~ result.ok =>
         /\ result.value # <<>>
         /\ result.value = [i \in 1..Len(FailedAttempts) |-> FailedAttempts[i].result.value]
         /\ \A i \in 1..Len(result.value) : "type" \notin DOMAIN result.value[i]

\* Two attempts failed and a token was collected between them.
C1_Witness ==
  /\ pc = "done"
  /\ ~ result.ok
  /\ Len(result.value) = 2
  /\ tokens # <<>>

(***************************************************************************)
(* C2                                                                      *)
(***************************************************************************)
\* C2: no character is dropped: after an attempt on an identifier/keyword run
\* the current character is the character that immediately follows the run,
\* and after an attempt on an unrecognized character it is the character that
\* immediately follows that character, so that character starts the next
\* attempt.
C2_FollowerStartsNextAttempt ==
  \A k \in 1..Len(trace) :
    LET a == trace[k]
        c == DispatchCharacter(a)
    IN  /\ (OnRun(a) /\ RunEnd(source_code, a.start) < Len(source_code)) =>
              a.stop = RunEnd(source_code, a.start)
        /\ (c # None /\ ~ IsRunStart(c) /\ c \notin OperatorCharacters) => a.stop = a.start + 1

(***************************************************************************)
(* C3                                                                      *)
(***************************************************************************)
\* C3: on an alphabetic character or '_', the text that is validated,
\* classified by the keyword table and stored in Identifier(text, span) is
\* exactly the maximal run of alphanumeric-or-'_' characters that starts at
\* the current character: an accepted attempt yields the token of that run,
\* a rejected one names that run in its message.
C3_CandidateIsMaximalRun ==
  \A k \in 1..Len(trace) :
    LET a == trace[k]
        r == MaximalRun(source_code, a.start)
    IN  OnRun(a) =>
          IF a.result.ok
            THEN a.result.value =
                   token_from_identifier_or_keyword(r, a.result.value.source_span)
            ELSE SubSeq(a.result.value.message, 1, Len(a.result.value.message) - 3) = r

(***************************************************************************)
(* C4                                                                      *)
(***************************************************************************)
NotWhitespace(c) == ~ IsAsciiWhitespace(c)

\* C4: a reserved word with any leading and trailing ASCII whitespace lexes
\* to Ok([K, Eof]) with K the word's keyword token.
C4_KeywordAmongWhitespace ==
  (pc = "done" /\ SelectSeq(source_code, NotWhitespace) \in KeywordTexts) =>
    /\ result.ok
    /\ Len(result.value) = 2
    /\ result.value[1].type = KeywordType(SelectSeq(source_code, NotWhitespace))
    /\ result.value[2] = Eof

(***************************************************************************)
(* C5                                                                      *)
(***************************************************************************)
\* C5: an attempt on a maximal run r is accepted iff r obeys the
\* identifier-shape rule (length 1, or every digit or '_' followed inside r
\* by an alphabetic character), whatever follows r; otherwise it yields one
\* InvalidIdentifier whose message names r and its first offending character.
C5_IdentifierShapeRule ==
  \A k \in 1..Len(trace) :
    LET a == trace[k]
        r == MaximalRun(source_code, a.start)
    IN  OnRun(a) =>
          IF ShapeOk(r) THEN a.result.ok
          ELSE /\ ~ a.result.ok
               /\ a.result.value.kind = "InvalidIdentifier"
               /\ a.result.value.message = InvalidMessage(r, r[FirstViolation(r)])

(***************************************************************************)
(* C6                                                                      *)
(***************************************************************************)
TwoCharacterOperators ==
  { << <<"*", "*">>, "StarStar" >>,
    << <<"%", "%">>, "PercentPercent" >>,
    << <<"<", "=">>, "LessThanOrEqual" >>,
    << <<">", "=">>, "GreaterThanOrEqual" >>,
    << <<"!", "=">>, "NotEqual" >> }

\* C6: each of "**", "%%", "<=", ">=" and "!=" lexes to Ok([T, Eof]) with T
\* its token at {line 1, column 2}.
C6_TwoCharacterOperators ==
  \A op \in TwoCharacterOperators :
    (pc = "done" /\ source_code = op[1]) =>
      result = Ok(<<Token(op[2], SourceSpan(1, 2)), Eof>>)

(***************************************************************************)
(* C7                                                                      *)
(***************************************************************************)
Unrecognized(c) ==
  ~ IsAsciiWhitespace(c) /\ c \notin OperatorCharacters /\ ~ IsRunCharacter(c)

UnrecognizedAt(s) == { i \in 1..Len(s) : Unrecognized(s[i]) }

\* Line and column (1-based) of the i-th character (1-based) of s.
LineOf(s, i) == 1 + Cardinality({ j \in 1..(i - 1) : s[j] = "\n" })

ColumnOf(s, i) ==
  LET newlines == { j \in 1..(i - 1) : s[j] = "\n" }
      last == IF newlines = {} THEN 0
              ELSE CHOOSE j \in newlines : \A n \in newlines : n <= j
  IN  i - last

\* C7: when the source is made of operator characters and whitespace and of
\* exactly one unrecognized character c, lex returns Err with exactly one
\* UnexpectedCharacter, at the line and column of c itself, naming c.
C7_UnexpectedCharacterAtItsPosition ==
  ( /\ pc = "done"
    /\ \A i \in 1..Len(source_code) :
         \/ IsAsciiWhitespace(source_code[i])
         \/ source_code[i] \in OperatorCharacters
         \/ Unrecognized(source_code[i])
    /\ Cardinality(UnrecognizedAt(source_code)) = 1 ) =>
      LET i == CHOOSE j \in UnrecognizedAt(source_code) : TRUE
      IN  result = Err(<<UnexpectedCharacter(
                           SourceSpan(LineOf(source_code, i), ColumnOf(source_code, i)),
                           source_code[i])>>)

(***************************************************************************)
(* C8                                                                      *)
(***************************************************************************)
\* C8: lex returns Ok when the source has no lexical defect and otherwise
\* Err with exactly one error per defect (UnexpectedCharacter per
\* unrecognized character, InvalidIdentifier per invalid run), in source
\* order.
C8_OneErrorPerDefect ==
  pc = "done" =>
    IF Defects(source_code, 0) = <<>> THEN result.ok
    ELSE ~ result.ok /\ Kinds(result.value) = Defects(source_code, 0)

(***************************************************************************)
(* C9                                                                      *)
(***************************************************************************)
\* C9: an attempt that finds the input exhausted yields no error: every
\* UnexpectedCharacter names a character of the source, and a source made
\* of whitespace only (the empty one included) lexes to Ok([Eof]).
C9_EndOfInputIsClean ==
  /\ \A i \in 1..Len(errors) :
       errors[i].kind = "UnexpectedCharacter" => errors[i].message[2] \in Range(source_code)
  /\ (pc = "done" /\ \A i \in 1..Len(source_code) : IsAsciiWhitespace(source_code[i])) =>
       result = Ok(<<Eof>>)

(***************************************************************************)
(* C10                                                                     *)
(***************************************************************************)
\* C10: every span of a collected token or error has line >= 1 and
\* column >= 1.
C10_SpansAreOneIndexed ==
  /\ \A i \in 1..Len(tokens) :
       tokens[i].source_span.line >= 1 /\ tokens[i].source_span.column >= 1
  /\ \A i \in 1..Len(errors) :
       errors[i].source_span.line >= 1 /\ errors[i].source_span.column >= 1

(***************************************************************************)
(* C11                                                                     *)
(***************************************************************************)
TwoCharacterTypes == { op[2] : op \in TwoCharacterOperators }

\* 1-based index of the last source character of the operator token that
\* the attempt a yielded.
LastOfOperator(a) ==
  IF a.result.value.type \in TwoCharacterTypes THEN a.start + 2 ELSE a.start + 1

OperatorsAndWhitespaceOnly(s) ==
  \A i \in 1..Len(s) : s[i] \in OperatorCharacters \/ IsAsciiWhitespace(s[i])

\* C11: in a source made of operator characters and ASCII whitespace, every
\* operator token's span has line = 1 + the number of newlines before the
\* token and column = the 1-based offset of the token's last character
\* within its line.
C11_LineAndColumnTracking ==
  OperatorsAndWhitespaceOnly(source_code) =>
    \A k \in 1..Len(trace) :
      LET a == trace[k]
      IN  a.result.ok =>
            a.result.value.source_span =
              SourceSpan(LineOf(source_code, LastOfOperator(a)),
                         ColumnOf(source_code, LastOfOperator(a)))

(***************************************************************************)
(* C12                                                                     *)
(***************************************************************************)
\* 1-based index of the last source character of the token that the attempt
\* a yielded: the end of the maximal run for an identifier or keyword.
LastOfToken(a) ==
  IF OnRun(a) THEN RunEnd(source_code, a.start) ELSE LastOfOperator(a)

\* C12: the span of every non-Eof token is the line and column of the last
\* source character of the token; for an identifier or keyword that is the
\* last character of its run, whatever follows the run.
C12_SpanIsLastCharacterOfToken ==
  \A k \in 1..Len(trace) :
    LET a == trace[k]
    IN  a.result.ok =>
          a.result.value.source_span =
            SourceSpan(LineOf(source_code, LastOfToken(a)),
                       ColumnOf(source_code, LastOfToken(a)))

(***************************************************************************)
(* C13                                                                     *)
(***************************************************************************)
\* The token of each one-character source that tests::recognizes_tokens
\* expects.
SingleOperatorInputs ==
  { <<"{", "LeftBrace">>, <<"}", "RightBrace">>, <<"[", "LeftBracket">>,
    <<"]", "RightBracket">>, <<"(", "LeftParen">>, <<")", "RightParen">>,
    <<",", "Comma">>, <<"+", "Plus">>, <<"-", "Minus">>, <<"/", "Slash">>,
    <<"*", "Star">>, <<"%", "Percent">>, <<"=", "Equal">>, <<"!", "Bang">>,
    <<"<", "LessThan">>, <<">", "GreaterThan">>, <<"&", "Ampersand">>,
    <<"|", "Pipe">> }

\* C13: a source that is exactly one single-character operator lexes to
\* Ok([T, Eof]) with T the token of that character at {line 1, column 1}.
C13_SingleCharacterOperators ==
  \A op \in SingleOperatorInputs :
    (pc = "done" /\ source_code = <<op[1]>>) =>
      result = Ok(<<Token(op[2], SourceSpan(1, 1)), Eof>>)

\* lex("|") has returned.
C13_Witness ==
  /\ pc = "done"
  /\ source_code = <<"|">>
  /\ result.ok
  /\ Len(trace) = 1

(***************************************************************************)
(* C15                                                                     *)
(***************************************************************************)
\* First character, second character, two-character token, one-character
\* token.
GreedyOperators ==
  { <<"*", "*", "StarStar", "Star">>,
    <<"%", "%", "PercentPercent", "Percent">>,
    <<"<", "=", "LessThanOrEqual", "LessThan">>,
    <<">", "=", "GreaterThanOrEqual", "GreaterThan">> }

\* C15: an attempt on '*', '%', '<' or '>' yields the two-character token and
\* consumes two characters when the next character is the operator's second
\* character, and otherwise yields the one-character token and consumes one;
\* the next attempt starts at the character right after the token.
C15_GreedyOperators ==
  \A k \in 1..Len(trace) : \A op \in GreedyOperators :
    LET a == trace[k]
        long == CharsNth(source_code, a.start + 1) = op[2]
        after == a.start + (IF long THEN 2 ELSE 1)
    IN  DispatchCharacter(a) = op[1] =>
          /\ a.result.ok
          /\ a.result.value.type = (IF long THEN op[3] ELSE op[4])
          /\ a.stop = after
          /\ (k < Len(trace) /\ ~ IsAsciiWhitespace(CharsNth(source_code, after))) =>
               trace[k + 1].start = after

\* "***" has been lexed to StarStar, Star.
C15_Witness ==
  /\ pc = "done"
  /\ source_code = <<"*", "*", "*">>
  /\ Len(tokens) = 2
  /\ tokens[1].type = "StarStar"
  /\ tokens[2].type = "Star"

(***************************************************************************)
(* C16                                                                     *)
(***************************************************************************)
\* C16: lex terminates: position starts at 1 and every next_token attempt
\* adds at least 1 to it, so the number of attempts stays below position,
\* the loop makes at most source_code.len() + 1 attempts, and when lex has
\* returned position is beyond source_code.len().
C16_BoundedAttempts ==
  /\ Len(trace) < position
  /\ Len(trace) <= StrLen(source_code) + 1
  /\ pc = "done" => position > StrLen(source_code)

\* lex has returned after an attempt that only found the end of the input.
C16_Witness ==
  /\ pc = "done"
  /\ Len(trace) = 3
  /\ DispatchCharacter(trace[3]) = None

(***************************************************************************)
(* C17                                                                     *)
(***************************************************************************)
\* (line, column) lexicographic order of spans.
SpanLess(a, b) == a.line < b.line \/ (a.line = b.line /\ a.column < b.column)

\* C17: in an Ok result the spans of consecutive non-Eof tokens strictly
\* increase in (line, column) order; in an Err result the spans of
\* consecutive errors do not decrease.
C17_SourceOrder ==
  pc = "done" =>
    IF result.ok
      THEN \A i \in 1..(Len(result.value) - 2) :
             SpanLess(result.value[i].source_span, result.value[i + 1].source_span)
      ELSE \A i \in 1..(Len(result.value) - 1) :
             ~ SpanLess(result.value[i + 1].source_span, result.value[i].source_span)

\* lex has returned two tokens that stand at the same column of two lines.
C17_Witness ==
  /\ pc = "done"
  /\ result.ok
  /\ Len(result.value) = 3
  /\ result.value[1].source_span.line < result.value[2].source_span.line
  /\ result.value[1].source_span.column = result.value[2].source_span.column

(***************************************************************************)
(* C18                                                                     *)
(***************************************************************************)
\* C18: has_characters_to_lex compares the characters consumed with the
\* number of characters of the source: a source of n characters causes at
\* most n + 1 attempts, and no attempt starts once the input is exhausted
\* (the current character is the null sentinel).
C18_CharactersNotBytes ==
  /\ Len(trace) <= Len(source_code) + 1
  /\ (pc = "lex" /\ has_characters_to_lex(Self)) => position <= Len(source_code)

(***************************************************************************)
(* C19                                                                     *)
(***************************************************************************)
\* C19: once lex has returned, the cursor is exhausted and stays so, the
\* source text does not change, and a further lex call on the instance makes
\* no next_token attempt and returns Ok([Eof]), whatever the first call
\* returned.
C19_SingleUse ==
  [][ (pc = "done" \/ calls >= 2) =>
        /\ position > StrLen(source_code)
        /\ position' = position
        /\ source_code' = source_code
        /\ trace' = trace
        /\ pc' = "done" => result' = Ok(<<Eof>>) ]_vars

\* A second call has returned on an instance whose first call failed.
C19_Witness ==
  /\ calls = 2
  /\ pc = "done"
  /\ FailedAttempts # <<>>
  /\ result = Ok(<<Eof>>)

(***************************************************************************)
(* C20                                                                     *)
(***************************************************************************)
\* The characters (1-based indexes) that the k-th attempt skipped before
\* the character it dispatches on.
SkippedBy(k) ==
  LET from == IF k = 1 THEN 0 ELSE trace[k - 1].stop
  IN  { i \in (from + 1)..trace[k].start : i <= Len(source_code) }

\* Every attempt skipped only characters of W and stopped at the first
\* character outside W; a character it stopped at that starts no token is
\* reported as UnexpectedCharacter.
SkipsExactly(W) ==
  \A k \in 1..Len(trace) :
    LET a == trace[k]
        c == DispatchCharacter(a)
    IN  /\ \A i \in SkippedBy(k) : source_code[i] \in W
        /\ c \notin W
        /\ (c # None /\ c \notin OperatorCharacters /\ ~ IsRunStart(c)) =>
             /\ ~ a.result.ok
             /\ a.result.value.kind = "UnexpectedCharacter"
             /\ a.result.value.message = UnexpectedMessage(c)

\* C20 as stated: skip_whitespace skips exactly space, tab, newline and
\* carriage return; any other character that starts no token, form feed
\* included, is reported as UnexpectedCharacter.
C20_SkipsFourCharacters == SkipsExactly({" ", "\t", "\n", "\r"})

\* C20 as amended: skip_whitespace skips exactly the five ASCII whitespace
\* characters space, tab, newline, form feed and carriage return and stops
\* at any other character; a character it stops at that starts no token is
\* reported as UnexpectedCharacter.
C20_SkipsAsciiWhitespace == SkipsExactly({" ", "\t", "\n", "\f", "\r"})

\* A form feed was skipped and the '?' after it was reported.
C20_Witness ==
  /\ pc = "done"
  /\ source_code = <<"\f", "?">>
  /\ Len(errors) = 1
  /\ errors[1].message = UnexpectedMessage("?")

====
